---- MODULE Spec2Model ----
(***************************************************************************)
(* Model of api_proxy_helper.py: a one-shot command-line bridge between a  *)
(* host process, an Ollama HTTP server and a ChromaDB persistent store.    *)
(* One invocation of the script is one behaviour: pc goes from "start" to  *)
(* "done" in a single step that runs the selected branch of __main__.      *)
(*                                                                         *)
(* Python values are tagged records, so that truthiness, `in`, subscripts  *)
(* and serialisation are computed the way the interpreter computes them.   *)
(* Floats are fixed-point numbers in units of 1/Scale; the distances and   *)
(* thresholds of the model are multiples of 1/8, on which IEEE-754         *)
(* subtraction and comparison are exact.                                   *)
(***************************************************************************)
EXTENDS Integers, Sequences, FiniteSets, TLC

VARIABLES pc, argv, store, stdout, stderr, exitCode, result, embedding,
          reply, httpLog, storeLog

vars == <<pc, argv, store, stdout, stderr, exitCode, result, embedding,
          reply, httpLog, storeLog>>

\* ------------------------------------------------------------ bounds

\* Longest ranked list of items a store collection holds.
MaxItems == 2

\* Units per 1.0 of the fixed-point floats of the model.
Scale == 1000

\* ------------------------------------------------------ Python values

PyNone == [t |-> "none"]
PyBool(b) == [t |-> "bool", v |-> b]
PyInt(n) == [t |-> "int", v |-> n]
PyFloat(n) == [t |-> "float", v |-> n]
PyStr(s) == [t |-> "str", v |-> s]
PyList(s) == [t |-> "list", v |-> s]
\* A dict keeps its keys in insertion order: k[i] maps to v[i].
PyDict(keys, vals) == [t |-> "dict", k |-> keys, v |-> vals]

\* A variable that no statement has assigned yet.
Unset == [t |-> "unset"]

\* The outcome of evaluating an expression or a call: a value or an
\* exception in flight.
Ok(v) == [ok |-> TRUE, val |-> v]
Raise(type, msg) == [ok |-> FALSE, exc |-> type, msg |-> msg]

\* bool(v): the test of `if v`, `if not v` and `a and b`.
Truthy(v) ==
  CASE v.t = "none" -> FALSE
    [] v.t = "bool" -> v.v
    [] v.t = "int" -> v.v # 0
    [] v.t = "float" -> v.v # 0
    [] v.t = "str" -> v.v # ""
    [] v.t = "list" -> Len(v.v) > 0
    [] v.t = "dict" -> Len(v.k) > 0

HasKey(d, key) == \E i \in 1..Len(d.k) : d.k[i] = key
Lookup(d, key) == d.v[CHOOSE i \in 1..Len(d.k) : d.k[i] = key]

TypeName(v) ==
  CASE v.t = "none" -> "NoneType"
    [] OTHER -> v.t

\* `key in v` for a str key. (A str container, which tests for a substring,
\* is outside the reply universe of the model.)
Contains(key, v) ==
  CASE v.t = "dict" -> Ok(HasKey(v, key))
    [] v.t = "list" -> Ok(\E i \in 1..Len(v.v) : v.v[i] = PyStr(key))
    [] OTHER -> Raise("TypeError",
                      "argument of type '" \o TypeName(v) \o "' is not iterable")

\* v[key] for a str key.
GetItem(v, key) ==
  CASE v.t = "dict" ->
         IF HasKey(v, key) THEN Ok(Lookup(v, key))
         ELSE Raise("KeyError", "'" \o key \o "'")
    [] v.t = "list" ->
         Raise("TypeError", "list indices must be integers or slices, not str")
    [] v.t = "str" ->
         Raise("TypeError", "string indices must be integers")
    [] OTHER ->
         Raise("TypeError", "'" \o TypeName(v) \o "' object is not subscriptable")

\* v[0].
Index0(v) ==
  CASE v.t = "list" ->
         IF Len(v.v) > 0 THEN Ok(v.v[1])
         ELSE Raise("IndexError", "list index out of range")
    [] v.t = "dict" -> Raise("KeyError", "0")
    [] OTHER ->
         Raise("TypeError", "'" \o TypeName(v) \o "' object is not subscriptable")

\* The elements `for x in v` visits.
Iterate(v) ==
  CASE v.t = "list" -> Ok(v.v)
    [] v.t = "dict" -> Ok([i \in 1..Len(v.k) |-> PyStr(v.k[i])])
    [] OTHER -> Raise("TypeError",
                      "'" \o TypeName(v) \o "' object is not iterable")

\* len(v).
PyLen(v) ==
  CASE v.t = "list" -> Ok(Len(v.v))
    [] v.t = "dict" -> Ok(Len(v.k))
    [] OTHER -> Raise("TypeError",
                      "object of type '" \o TypeName(v) \o "' has no len()")

\* ------------------------------------------------------ serialisation

Digits == <<"0", "1", "2", "3", "4", "5", "6", "7", "8", "9">>

RECURSIVE NatStr(_)
NatStr(n) == IF n < 10 THEN Digits[n + 1]
             ELSE NatStr(n \div 10) \o Digits[(n % 10) + 1]

IntStr(n) == IF n < 0 THEN "-" \o NatStr(0 - n) ELSE NatStr(n)

\* The three decimals of f/Scale without trailing zeros, at least one digit.
FracStr(f) ==
  IF f % 100 = 0 THEN Digits[(f \div 100) + 1]
  ELSE IF f % 10 = 0 THEN Digits[(f \div 100) + 1] \o Digits[((f \div 10) % 10) + 1]
  ELSE Digits[(f \div 100) + 1] \o Digits[((f \div 10) % 10) + 1]
         \o Digits[(f % 10) + 1]

Abs(n) == IF n < 0 THEN 0 - n ELSE n

\* repr() of a float with at most three decimals.
FloatStr(n) ==
  (IF n < 0 THEN "-" ELSE "")
    \o NatStr(Abs(n) \div Scale) \o "." \o FracStr(Abs(n) % Scale)

\* json.dumps(v) when js, repr(v) / str(v) inside an f-string otherwise. The
\* two differ in the quotes and in the spelling of None, True and False.
RECURSIVE Ser(_, _)
RECURSIVE SerItems(_, _)
RECURSIVE SerPairs(_, _, _)
Ser(v, js) ==
  CASE v.t = "none" -> IF js THEN "null" ELSE "None"
    [] v.t = "bool" -> IF v.v THEN (IF js THEN "true" ELSE "True")
                       ELSE (IF js THEN "false" ELSE "False")
    [] v.t = "int" -> IntStr(v.v)
    [] v.t = "float" -> FloatStr(v.v)
    [] v.t = "str" -> IF js THEN "\"" \o v.v \o "\"" ELSE "'" \o v.v \o "'"
    [] v.t = "list" -> "[" \o SerItems(v.v, js) \o "]"
    [] v.t = "dict" -> "{" \o SerPairs(v.k, v.v, js) \o "}"
SerItems(s, js) ==
  IF Len(s) = 0 THEN ""
  ELSE IF Len(s) = 1 THEN Ser(s[1], js)
  ELSE Ser(s[1], js) \o ", " \o SerItems(Tail(s), js)
SerPairs(ks, vs, js) ==
  IF Len(ks) = 0 THEN ""
  ELSE IF Len(ks) = 1 THEN Ser(PyStr(ks[1]), js) \o ": " \o Ser(vs[1], js)
  ELSE Ser(PyStr(ks[1]), js) \o ": " \o Ser(vs[1], js) \o ", "
         \o SerPairs(Tail(ks), Tail(vs), js)

json_dumps(v) == Ser(v, TRUE)
py_format(v) == Ser(v, FALSE)

\* A function's return value together with what it did on the way: the lines
\* it wrote to sys.stderr, the HTTP requests it sent, the store calls it made
\* and, for query_chroma, what the embedder handed back.
Effect(out, err, http, st, emb) ==
  [out |-> out, err |-> err, http |-> http, st |-> st, emb |-> emb]

ErrorResult(msg) == PyDict(<<"error">>, <<PyStr(msg)>>)

\* ----------------------------------------------------------- the server

\* A reply of the HTTP server: status 0 stands for no reply at all (the
\* connection failed), BadJson for a body that is not JSON.
BadJson == [t |-> "badjson"]
HttpReply(status, body) == [status |-> status, body |-> body]

HttpFailures ==
  { HttpReply(0, PyNone), HttpReply(500, PyNone), HttpReply(200, BadJson) }

\* requests.get / requests.post, raise_for_status() and response.json().
http_json(rep) ==
  IF rep.status = 0
    THEN Raise("ConnectionError", "Connection refused")
  ELSE IF rep.status >= 400
    THEN Raise("HTTPError", IntStr(rep.status) \o " Server Error")
  ELSE IF rep.body.t = "badjson"
    THEN Raise("JSONDecodeError", "Expecting value: line 1 column 1 (char 0)")
  ELSE Ok(rep.body)

Request(method, url, json) == [method |-> method, url |-> url, json |-> json]

\* -------------------------------------------------- get_models_from_ollama

\* [model['name'] for model in models]
model_names_reversed(models) ==
  LET it == Iterate(models) IN
  IF ~it.ok THEN it
  ELSE LET names == [i \in 1..Len(it.val) |-> GetItem(it.val[i], "name")] IN
       IF \E i \in 1..Len(names) : ~names[i].ok
         THEN names[CHOOSE i \in 1..Len(names) :
                      ~names[i].ok /\ \A j \in 1..(i - 1) : names[j].ok]
         ELSE Ok(PyList([i \in 1..Len(names) |-> names[Len(names) + 1 - i].val]))

model_names(models) ==
  LET it == Iterate(models) IN
  IF ~it.ok THEN it
  ELSE LET names == [i \in 1..Len(it.val) |-> GetItem(it.val[i], "name")] IN
       IF \E i \in 1..Len(names) : ~names[i].ok
         THEN names[CHOOSE i \in 1..Len(names) :
                      ~names[i].ok /\ \A j \in 1..(i - 1) : names[j].ok]
         ELSE Ok(PyList([i \in 1..Len(names) |-> names[i].val]))

models_result(models, n) == PyDict(<<"models", "count">>, <<models, PyInt(n)>>)

\* The body of the try block: its outcome and the lines it printed.
models_try(rep, include_details) ==
  LET r == http_json(rep) IN
  IF ~r.ok THEN [out |-> r, err |-> <<>>]
  ELSE LET has == Contains("models", r.val) IN
  IF ~has.ok THEN [out |-> has, err |-> <<>>]
  ELSE IF has.val
    THEN LET models == GetItem(r.val, "models") IN
         IF ~models.ok THEN [out |-> models, err |-> <<>>]
         ELSE IF ~include_details
           THEN LET names == model_names(models.val) IN
                IF ~names.ok THEN [out |-> names, err |-> <<>>]
                ELSE [out |-> Ok(models_result(names.val, Len(names.val.v))),
                      err |-> <<>>]
           ELSE LET n == PyLen(models.val) IN
                IF ~n.ok THEN [out |-> n, err |-> <<>>]
                ELSE [out |-> Ok(models_result(models.val, n.val)), err |-> <<>>]
    ELSE [out |-> Ok(ErrorResult("Unexpected response format")),
          err |-> <<"Error: Unexpected response format - " \o py_format(r.val)>>]

get_models_from_ollama(base_url, include_details, rep) ==
  LET try == models_try(rep, include_details)
      req == Request("GET", base_url \o "/api/tags", PyNone)
  IN IF try.out.ok
       THEN Effect(try.out, try.err, <<req>>, <<>>, Unset)
       ELSE Effect(Ok(ErrorResult("Error getting models: " \o try.out.msg)),
                   try.err \o <<"Error getting models: " \o try.out.msg>>,
                   <<req>>, <<>>, Unset)

\* ----------------------------------------------- get_embedding_from_ollama

embedding_try(rep) ==
  LET r == http_json(rep) IN
  IF ~r.ok THEN [out |-> r, err |-> <<>>]
  ELSE LET has == Contains("embedding", r.val) IN
  IF ~has.ok THEN [out |-> has, err |-> <<>>]
  ELSE IF has.val
    THEN [out |-> GetItem(r.val, "embedding"), err |-> <<>>]
    ELSE [out |-> Ok(PyNone),
          err |-> <<"Error: Unexpected response format - " \o py_format(r.val)>>]

\* except Exception as e: print(...); return None
embedding_except_reraise(try) ==
  [out |-> try.out, err |-> try.err]

embedding_except_silent(try) ==
  [out |-> Ok(PyNone), err |-> try.err]

embedding_except(try) ==
  [out |-> Ok(PyNone),
   err |-> try.err \o <<"Error getting embedding: " \o try.out.msg>>]

get_embedding_from_ollama(text, model, base_url, rep) ==
  LET try == embedding_try(rep)
      data == PyDict(<<"model", "prompt">>, <<PyStr(model), PyStr(text)>>)
      req == Request("POST", base_url \o "/api/embeddings", data)
      done == IF try.out.ok THEN try ELSE embedding_except(try)
  IN Effect(done.out, done.err, <<req>>, <<>>, Unset)

\* --------------------------------------------------------------- the store

\* The names bound at module level when __main__ runs: the imports of lines
\* 1-5 and the four functions.
GlobalNames ==
  { "chromadb", "json", "requests", "sys", "os", "get_models_from_ollama",
    "get_embedding_from_ollama", "query_chroma", "send_chat_to_ollama" }

\* Evaluating a bare name.
ResolveName(name) ==
  IF name \in GlobalNames THEN Ok(PyStr(name))
  ELSE Raise("NameError", "name '" \o name \o "' is not defined")

\* One ranked entry of a collection: a document, its metadata and its
\* distance to the query embedding.
Item(doc, meta, dist) == [doc |-> doc, meta |-> meta, dist |-> dist]

\* chromadb.PersistentClient(path=db_path, settings=Settings(...)): the
\* arguments are evaluated before the call is made.
open_client(st, db_path) ==
  LET settings == ResolveName("Settings") IN
  IF ~settings.ok THEN [out |-> settings, log |-> <<>>]
  ELSE IF st.opens THEN [out |-> Ok(PyStr(db_path)), log |-> <<"PersistentClient">>]
  ELSE [out |-> Raise("ValueError", "Could not open " \o db_path),
        log |-> <<"PersistentClient">>]

\* client.get_collection(name="document_collection")
get_collection(st) ==
  IF st.has THEN Ok(PyStr("document_collection"))
  ELSE Raise("ValueError", "Collection document_collection does not exist.")

\* collection.query(query_embeddings=[...], n_results=n_results, include=[...]):
\* the n_results nearest items, nearest first, as parallel lists.
collection_query(st, n_results) ==
  IF n_results < 1
    THEN Raise("TypeError", "Number of requested results "
                              \o IntStr(n_results) \o ", cannot be negative, or zero.")
  ELSE LET n == IF n_results < Len(st.items) THEN n_results ELSE Len(st.items)
           got == SubSeq(st.items, 1, n)
       IN Ok(PyDict(<<"ids", "documents", "metadatas", "distances">>,
               << PyList(<<PyList([i \in 1..n |-> PyStr("id" \o IntStr(i))])>>),
                  PyList(<<PyList([i \in 1..n |-> PyStr(got[i].doc)])>>),
                  PyList(<<PyList([i \in 1..n |-> got[i].meta])>>),
                  PyList(<<PyList([i \in 1..n |-> PyFloat(got[i].dist)])>>) >>))

\* ------------------------------------------------------------ query_chroma

\* 1 - dist
Similarity(dist) == Scale - dist

\* similarity >= threshold
KeepBelow(similarity, threshold) == similarity <= threshold

Keep(similarity, threshold) == similarity >= threshold

\* similarities = [1 - dist for dist in results["distances"][0]]
similarities(dists) ==
  LET it == Iterate(dists) IN
  IF ~it.ok THEN it
  ELSE IF \E i \in 1..Len(it.val) : it.val[i].t \notin {"float", "int"}
    THEN Raise("TypeError", "unsupported operand type(s) for -")
  ELSE Ok([i \in 1..Len(it.val) |-> Similarity(it.val[i].v)])

\* results[key][0], iterated
first_list(results, key) ==
  LET outer == GetItem(results, key) IN
  IF ~outer.ok THEN outer
  ELSE LET inner == Index0(outer.val) IN
       IF ~inner.ok THEN inner ELSE Iterate(inner.val)

Min3(a, b, c) ==
  LET ab == IF a < b THEN a ELSE b IN IF ab < c THEN ab ELSE c

\* zip(documents, metadatas, similarities), as the dicts the loop would append.
zip_items(docs, metas, sims) ==
  [i \in 1..Min3(Len(docs), Len(metas), Len(sims)) |->
     PyDict(<<"document", "metadata", "similarity">>,
            <<docs[i], metas[i], PyFloat(sims[i])>>)]

\* return {"results": processed_results, "count": len(processed_results)}
success_result(items) ==
  PyDict(<<"results", "count">>, <<PyList(items), PyInt(Len(items))>>)

\* The loop of lines 92-99 over the zipped triples.
filter_items_resorted(zipped, threshold) ==
  LET kept == SelectSeq(zipped, LAMBDA x : Keep(Lookup(x, "similarity").v, threshold))
  IN [i \in 1..Len(kept) |-> kept[Len(kept) + 1 - i]]

filter_items(zipped, threshold) ==
  SelectSeq(zipped, LAMBDA x : Keep(Lookup(x, "similarity").v, threshold))

\* Lines 85-104: from the store's answer to the success result.
process_results(results, threshold) ==
  LET d == GetItem(results, "distances") IN
  IF ~d.ok THEN d
  ELSE IF ~Truthy(d.val) THEN Ok(success_result(<<>>))
  ELSE LET d0 == Index0(d.val) IN
  IF ~d0.ok THEN d0
  ELSE IF ~Truthy(d0.val) THEN Ok(success_result(<<>>))
  ELSE LET sims == similarities(d0.val) IN
  IF ~sims.ok THEN sims
  ELSE LET docs == first_list(results, "documents") IN
  IF ~docs.ok THEN docs
  ELSE LET metas == first_list(results, "metadatas") IN
  IF ~metas.ok THEN metas
  ELSE LET zipped == zip_items(docs.val, metas.val, sims.val) IN
       Ok(success_result(filter_items(zipped, threshold)))

\* Lines 78-104: the query of a resolved collection and its processing.
query_collection(st, n_results, threshold) ==
  LET results == collection_query(st, n_results) IN
  IF ~results.ok THEN results ELSE process_results(results.val, threshold)

\* Lines 69-104: everything after the embedding was obtained.
query_store(st, db_path, n_results, threshold) ==
  LET client == open_client(st, db_path) IN
  IF ~client.out.ok THEN client
  ELSE LET collection == get_collection(st) IN
       IF ~collection.ok
         THEN [out |-> Ok(ErrorResult("Collection not found: " \o collection.msg)),
               log |-> client.log \o <<"get_collection">>]
         ELSE [out |-> query_collection(st, n_results, threshold),
               log |-> client.log \o <<"get_collection", "query">>]

\* if not query_embedding
embedding_missing_unchecked(emb) == FALSE

embedding_missing(emb) == ~Truthy(emb)

\* except Exception as e: return {"error": f"Error querying ChromaDB: {str(e)}"}
catch_query_reraise(out) == out

catch_query(out) ==
  IF out.ok THEN out
  ELSE Ok(ErrorResult("Error querying ChromaDB: " \o out.msg))

query_chroma(query_text, db_path, embedding_model, base_url, n_results, threshold, rep, st) ==
  LET e == get_embedding_from_ollama(query_text, embedding_model, base_url, rep)
      body == IF ~e.out.ok THEN [out |-> e.out, log |-> <<>>]
              ELSE IF embedding_missing(e.out.val)
                THEN [out |-> Ok(ErrorResult("Failed to get embedding for query")),
                      log |-> <<>>]
              ELSE query_store(st, db_path, n_results, threshold)
  IN Effect(catch_query(body.out), e.err, e.http, body.log, e.out)

\* ----------------------------------------------------- send_chat_to_ollama

Temperature == 700
NumCtx == 16384

\* if context: data["context"] = context
add_context_always(data, context) ==
  PyDict(data.k \o <<"context">>, data.v \o <<context>>)

add_context(data, context) ==
  IF Truthy(context)
    THEN PyDict(data.k \o <<"context">>, data.v \o <<context>>)
    ELSE data

chat_data(messages, model, context) ==
  add_context(
    PyDict(<<"model", "messages", "options">>,
           << PyStr(model), messages,
              PyDict(<<"temperature", "num_ctx">>,
                     <<PyFloat(Temperature), PyInt(NumCtx)>>) >>),
    context)

send_chat_to_ollama(messages, model, context, base_url, rep) ==
  LET req == Request("POST", base_url \o "/api/chat",
                     chat_data(messages, model, context))
      r == http_json(rep)
  IN IF r.ok THEN Effect(r, <<>>, <<req>>, <<>>, Unset)
     ELSE Effect(Ok(ErrorResult("Error sending chat to Ollama: " \o r.msg)),
                 <<>>, <<req>>, <<>>, Unset)

\* ---------------------------------------------------------------- __main__

\* sys.argv[k]: argv holds the script name at index 1.
Arg(a, k) == a[k + 1]

\* An exception nothing catches: the interpreter prints the traceback and
\* exits with status 1.
Fault(exc) == Effect(exc, <<>>, <<>>, <<>>, Unset)

\* int(s), float(s), json.loads(s) and s.lower() on the argument strings of
\* the model; every other string of the model is one they reject (or, for
\* lower(), leave as it is).
ParseInt(s) ==
  CASE s = "3" -> Ok(3)
    [] s = "1" -> Ok(1)
    [] OTHER -> Raise("ValueError",
                      "invalid literal for int() with base 10: '" \o s \o "'")

ParseFloat(s) ==
  CASE s = "0.75" -> Ok(750)
    [] s = "0.875" -> Ok(875)
    [] OTHER -> Raise("ValueError",
                      "could not convert string to float: '" \o s \o "'")

MessagesJson == "[{\"role\": \"user\", \"content\": \"hi\"}]"

json_loads(s) ==
  CASE s = "null" -> Ok(PyNone)
    [] s = "0" -> Ok(PyInt(0))
    [] s = "[]" -> Ok(PyList(<<>>))
    [] s = "{}" -> Ok(PyDict(<<>>, <<>>))
    [] s = "[1, 2]" -> Ok(PyList(<<PyInt(1), PyInt(2)>>))
    [] s = MessagesJson ->
         Ok(PyList(<<PyDict(<<"role", "content">>, <<PyStr("user"), PyStr("hi")>>)>>))
    [] OTHER -> Raise("JSONDecodeError", "Expecting value: line 1 column 1 (char 0)")

Lower(s) ==
  CASE s = "TRUE" -> "true"
    [] s = "True" -> "true"
    [] OTHER -> s

IndexError == Raise("IndexError", "list index out of range")

\* Lines 138-145.
main_query(a, st, rep) ==
  IF Len(a) < 8 THEN Fault(IndexError)
  ELSE LET n_results == ParseInt(Arg(a, 6)) IN
  IF ~n_results.ok THEN Fault(n_results)
  ELSE LET threshold == ParseFloat(Arg(a, 7)) IN
  IF ~threshold.ok THEN Fault(threshold)
  ELSE query_chroma(Arg(a, 2), Arg(a, 3), Arg(a, 4), Arg(a, 5),
                    n_results.val, threshold.val, rep, st)

\* sys.argv[4] if len(sys.argv) > 4 and sys.argv[4] != "null" else None
context_json_of(a) ==
  IF Len(a) > 4 /\ Arg(a, 4) # "null" THEN PyStr(Arg(a, 4)) ELSE PyNone

\* json.loads(context_json) if context_json else None
context_of(context_json) ==
  IF Truthy(context_json) THEN json_loads(context_json.v) ELSE Ok(PyNone)

\* Lines 149-157.
main_chat(a, rep) ==
  IF Len(a) < 6 THEN Fault(IndexError)
  ELSE LET messages == json_loads(Arg(a, 2)) IN
  IF ~messages.ok THEN Fault(messages)
  ELSE LET context == context_of(context_json_of(a)) IN
  IF ~context.ok THEN Fault(context)
  ELSE send_chat_to_ollama(messages.val, Arg(a, 3), context.val, Arg(a, 5), rep)

\* sys.argv[3].lower() == "true" if len(sys.argv) > 3 else False
include_details_of(a) ==
  IF Len(a) > 3 THEN Lower(Arg(a, 3)) = "true" ELSE FALSE

\* Lines 161-164.
main_models(a, rep) ==
  IF Len(a) < 3 THEN Fault(IndexError)
  ELSE get_models_from_ollama(Arg(a, 2), include_details_of(a), rep)

\* print(json.dumps(result))
print_json_twice(out, value) == out \o <<json_dumps(value), json_dumps(value)>>

print_json(out, value) == Append(out, json_dumps(value))

\* The end of a branch of __main__: the result is printed and the process
\* exits normally, or the exception in flight ends it.
Finish(run, rep) ==
  /\ pc' = "done"
  /\ result' = IF run.out.ok THEN run.out.val ELSE Unset
  /\ stdout' = IF run.out.ok THEN print_json(stdout, run.out.val) ELSE stdout
  /\ stderr' = IF run.out.ok THEN stderr \o run.err
               ELSE stderr \o run.err
                      \o <<"Traceback (most recent call last):",
                           run.out.exc \o ": " \o run.out.msg>>
  /\ exitCode' = IF run.out.ok THEN 0 ELSE 1
  /\ embedding' = run.emb
  /\ reply' = IF run.http = <<>> THEN Unset ELSE rep
  /\ httpLog' = run.http
  /\ storeLog' = run.st
  /\ UNCHANGED <<argv, store>>

\* -------------------------------------------------------------- universes

Script == "api_proxy_helper.py"
BaseUrl == "http://localhost:11434"

QueryArgvs ==
  { <<Script, "query", "what is rust", "/db", "all-minilm", BaseUrl, n, t>> :
      n \in {"3", "1", "x"}, t \in {"0.75", "0.875", "abc"} }
    \cup { <<Script, "query", "what is rust", "/db">> }

ChatArgvs ==
  { <<Script, "chat", m, "llama3", c, BaseUrl>> :
      m \in {MessagesJson, "[]", "{bad"},
      c \in {"null", "", "[]", "{}", "0", "[1, 2]", "{bad"} }
    \cup { <<Script, "chat", MessagesJson, "llama3", "null">>,
           <<Script, "chat", MessagesJson, "llama3">> }

ModelsArgvs ==
  { <<Script, "models", BaseUrl>>, <<Script, "models", BaseUrl, "true">>,
    <<Script, "models", BaseUrl, "TRUE">>, <<Script, "models", BaseUrl, "false">>,
    <<Script, "models">> }

OtherArgvs ==
  { <<Script>>, <<Script, "embed", "hello", "all-minilm", BaseUrl>>,
    <<Script, "help">> }

Argvs == QueryArgvs \cup ChatArgvs \cup ModelsArgvs \cup OtherArgvs

\* Distances 0.125, 0.25 and 1.5: above a threshold, equal to one, and out of
\* the range [0, 1].
Dists == {125, 250, 1500}

Items ==
  { Item("d1", PyDict(<<"source">>, <<PyStr("a.txt")>>), d) : d \in Dists }
    \cup { Item("d2", PyDict(<<"source">>, <<PyStr("b.txt")>>), d) : d \in Dists }

ItemSeqs == UNION { [1..n -> Items] : n \in 0..MaxItems }

StoresWithCollection ==
  { [opens |-> TRUE, has |-> TRUE, items |-> s] : s \in ItemSeqs }

Stores ==
  { [opens |-> FALSE, has |-> FALSE, items |-> <<>>],
    [opens |-> TRUE, has |-> FALSE, items |-> <<>>] }
    \cup StoresWithCollection

Llama == PyDict(<<"name">>, <<PyStr("llama3")>>)
Mistral == PyDict(<<"name", "size">>, <<PyStr("mistral"), PyInt(4)>>)
Nameless == PyDict(<<"size">>, <<PyInt(4)>>)

TagsBodies ==
  { PyDict(<<"models">>, <<PyList(<<Llama, Mistral>>)>>),
    PyDict(<<"models">>, <<PyList(<<Mistral, Llama, Llama>>)>>),
    PyDict(<<"models">>, <<PyList(<<>>)>>),
    PyDict(<<"models">>, <<PyList(<<Llama, Nameless>>)>>),
    PyDict(<<"models">>, <<PyNone>>),
    PyDict(<<"error">>, <<PyStr("unavailable")>>),
    PyList(<<PyStr("models")>>),
    PyNone }

EmbeddingBodies ==
  { PyDict(<<"embedding">>, <<PyList(<<PyFloat(125), PyFloat(500)>>)>>),
    PyDict(<<"embedding">>, <<PyList(<<>>)>>),
    PyDict(<<"embedding">>, <<PyNone>>),
    PyDict(<<"error">>, <<PyStr("model not found")>>),
    PyList(<<PyStr("embedding")>>),
    PyNone }

ChatBodies ==
  { PyDict(<<"message", "done", "context">>,
           << PyDict(<<"role", "content">>, <<PyStr("assistant"), PyStr("hello")>>),
              PyBool(TRUE), PyList(<<PyInt(1), PyInt(2)>>) >>),
    PyDict(<<"error">>, <<PyStr("model not found")>>),
    PyList(<<>>) }

TagsReplies == HttpFailures \cup { HttpReply(200, b) : b \in TagsBodies }
EmbeddingReplies == HttpFailures \cup { HttpReply(200, b) : b \in EmbeddingBodies }
ChatReplies == HttpFailures \cup { HttpReply(200, b) : b \in ChatBodies }

\* ------------------------------------------------------------ the program

Init ==
  /\ pc = "start"
  /\ argv \in Argvs
  /\ store \in Stores
  /\ stdout = <<>>
  /\ stderr = <<>>
  /\ exitCode = -1
  /\ result = Unset
  /\ embedding = Unset
  /\ reply = Unset
  /\ httpLog = <<>>
  /\ storeLog = <<>>

\* command = sys.argv[1] with no argument given.
MainNoCommand ==
  /\ pc = "start"
  /\ Len(argv) < 2
  /\ Finish(Fault(IndexError), Unset)

MainQuery ==
  /\ pc = "start"
  /\ Len(argv) >= 2
  /\ Arg(argv, 1) = "query"
  /\ \E rep \in EmbeddingReplies : Finish(main_query(argv, store, rep), rep)

MainChat ==
  /\ pc = "start"
  /\ Len(argv) >= 2
  /\ Arg(argv, 1) = "chat"
  /\ \E rep \in ChatReplies : Finish(main_chat(argv, rep), rep)

MainModels ==
  /\ pc = "start"
  /\ Len(argv) >= 2
  /\ Arg(argv, 1) = "models"
  /\ \E rep \in TagsReplies : Finish(main_models(argv, rep), rep)

\* No branch matches the command: the script ends without printing.
MainOther ==
  /\ pc = "start"
  /\ Len(argv) >= 2
  /\ Arg(argv, 1) \notin {"query", "chat", "models"}
  /\ pc' = "done"
  /\ exitCode' = 0
  /\ UNCHANGED <<argv, store, stdout, stderr, result, embedding, reply,
                 httpLog, storeLog>>

Next == MainNoCommand \/ MainQuery \/ MainChat \/ MainModels \/ MainOther

Spec == Init /\ [][Next]_vars

\* The steps of query_chroma that follow the resolution of the collection
\* (lines 78-106), run on every collection and every threshold of the model.
\* Spec itself never takes them: open_client raises NameError before any
\* collection is resolved (QueryNeverSucceeds below).
InitCollection ==
  /\ Init
  /\ argv \in QueryArgvs
  /\ Len(argv) = 8
  /\ ParseInt(Arg(argv, 6)).ok
  /\ ParseFloat(Arg(argv, 7)).ok
  /\ store \in StoresWithCollection

QueryCollection ==
  /\ pc = "start"
  /\ pc' = "done"
  /\ result' = catch_query(query_collection(store, ParseInt(Arg(argv, 6)).val,
                                            ParseFloat(Arg(argv, 7)).val)).val
  /\ storeLog' = <<"query">>
  /\ UNCHANGED <<argv, store, stdout, stderr, exitCode, embedding, reply, httpLog>>

CollectionSpec == InitCollection /\ [][QueryCollection]_vars

\* ------------------------------------------------------------- properties

Done == pc = "done"

\* The command token, "" when none was given.
Command == IF Len(argv) >= 2 THEN Arg(argv, 1) ELSE ""

\* The positional arguments of the selected command are all there and parse.
QueryArgsParse ==
  Len(argv) >= 8 /\ ParseInt(Arg(argv, 6)).ok /\ ParseFloat(Arg(argv, 7)).ok
ChatArgsParse ==
  /\ Len(argv) >= 6
  /\ json_loads(Arg(argv, 2)).ok
  /\ context_of(context_json_of(argv)).ok
ModelsArgsParse == Len(argv) >= 3
ArgsParse ==
  CASE Command = "query" -> QueryArgsParse
    [] Command = "chat" -> ChatArgsParse
    [] Command = "models" -> ModelsArgsParse
    [] OTHER -> Len(argv) >= 2

Recognised == Command \in {"query", "chat", "models"}

IsErrorResult(v) == v.t = "dict" /\ v.k = <<"error">> /\ v.v[1].t = "str"
IsQuerySuccess(v) == v.t = "dict" /\ v.k = <<"results", "count">>

\* What the store handed back to the query: its n_results nearest items.
Returned ==
  LET n == ParseInt(Arg(argv, 6)).val
  IN SubSeq(store.items, 1, IF n < Len(store.items) THEN n ELSE Len(store.items))

ThresholdArg == ParseFloat(Arg(argv, 7)).val

ResultItem(item) ==
  PyDict(<<"document", "metadata", "similarity">>,
         <<PyStr(item.doc), item.meta, PyFloat(Scale - item.dist)>>)

\* Under Spec no query command ends in a success result: Settings is not a
\* name of the module, so line 70 raises and line 106 reports it.
QueryNeverSucceeds ==
  (Done /\ Command = "query" /\ result # Unset) => IsErrorResult(result)

\* C1: in every success result {results, count} of the query, every item of
\* results has similarity >= threshold, no returned store item whose
\* similarity is below the threshold appears in results, and count is the
\* length of results.
C1_ResultsMeetThreshold ==
  (Done /\ IsQuerySuccess(result)) =>
    LET res == Lookup(result, "results").v IN
    /\ \A i \in 1..Len(res) : Lookup(res[i], "similarity").v >= ThresholdArg
    /\ \A j \in 1..Len(Returned) :
         (Scale - Returned[j].dist < ThresholdArg) =>
           ~ \E i \in 1..Len(res) : res[i] = ResultItem(Returned[j])
    /\ Lookup(result, "count") = PyInt(Len(res))

\* A query that kept one returned item and dropped another.
C1_Witness ==
  /\ Done
  /\ IsQuerySuccess(result)
  /\ Len(Lookup(result, "results").v) = 1
  /\ Len(Returned) = 2
  /\ Lookup(result, "count") = PyInt(1)

\* C2: each result item is a returned store item with its own document and
\* metadata and similarity exactly 1 - distance, and results is the
\* order-preserving subsequence of the returned list made of the items whose
\* similarity reaches the threshold.
C2_OrderPreservingSubsequence ==
  (Done /\ IsQuerySuccess(result)) =>
    LET res == Lookup(result, "results").v IN
    \E f \in [1..Len(res) -> 1..Len(Returned)] :
      /\ \A a, b \in 1..Len(res) : a < b => f[a] < f[b]
      /\ \A a \in 1..Len(res) : res[a] = ResultItem(Returned[f[a]])
      /\ \A j \in 1..Len(Returned) :
           (Scale - Returned[j].dist >= ThresholdArg)
             <=> (\E a \in 1..Len(res) : f[a] = j)

\* Two different items kept, in the store's ranking order.
C2_Witness ==
  /\ Done
  /\ IsQuerySuccess(result)
  /\ Len(Lookup(result, "results").v) = 2
  /\ Returned[1].doc # Returned[2].doc
  /\ Returned[1].dist < Returned[2].dist
  /\ Lookup(result, "results").v[1] = ResultItem(Returned[1])
  /\ Lookup(result, "results").v[2] = ResultItem(Returned[2])

\* The embedder handed query_chroma a usable vector.
EmbeddingObtained == embedding # Unset /\ embedding.ok /\ Truthy(embedding.val)

\* C3: when the embedding was obtained and the store has no collection named
\* document_collection, the query returns the error payload "Collection not
\* found: " followed by the underlying message, and nothing is raised.
C3_CollectionNotFound ==
  (Done /\ Command = "query" /\ QueryArgsParse /\ EmbeddingObtained
     /\ store.opens /\ ~store.has) =>
    /\ exitCode = 0
    /\ result = PyDict(<<"error">>,
                       <<PyStr("Collection not found: " \o get_collection(store).msg)>>)

\* C4: when the embedder returns None the query returns exactly
\* {error: "Failed to get embedding for query"} and no store call is made.
C4_NoEmbeddingNoStore ==
  (Done /\ Command = "query" /\ embedding = Ok(PyNone)) =>
    /\ result = PyDict(<<"error">>, <<PyStr("Failed to get embedding for query")>>)
    /\ storeLog = <<>>
    /\ Len(httpLog) = 1

\* The embedding request failed and the query reported it.
C4_Witness ==
  /\ Done
  /\ Command = "query"
  /\ embedding = Ok(PyNone)
  /\ reply.status = 500
  /\ stdout = <<"{\"error\": \"Failed to get embedding for query\"}">>
  /\ storeLog = <<>>

\* The context send_chat_to_ollama is called with, and the body it posts.
ContextArg == context_of(context_json_of(argv)).val
ChatSent == Done /\ Command = "chat" /\ ChatArgsParse /\ Len(httpLog) = 1
ChatBody == httpLog[1].json

FixedChatFields ==
  /\ HasKey(ChatBody, "model") /\ Lookup(ChatBody, "model") = PyStr(Arg(argv, 3))
  /\ HasKey(ChatBody, "messages")
  /\ Lookup(ChatBody, "messages") = json_loads(Arg(argv, 2)).val
  /\ HasKey(ChatBody, "options")
  /\ Lookup(ChatBody, "options")
       = PyDict(<<"temperature", "num_ctx">>, <<PyFloat(700), PyInt(16384)>>)

\* C5, as stated: a null context gives a request body without a context
\* field; a supplied context, whatever its value, is carried verbatim; model,
\* messages and the fixed options are there in both cases.
C5_AnyContextForwarded ==
  ChatSent =>
    /\ (ContextArg = PyNone) => ~HasKey(ChatBody, "context")
    /\ (ContextArg # PyNone) =>
         (HasKey(ChatBody, "context") /\ Lookup(ChatBody, "context") = ContextArg)
    /\ FixedChatFields

\* C5, amended: a context that is null or empty (0, an empty list, an empty
\* object) gives a request body without a context field; any other supplied
\* context is carried verbatim; model, messages and the fixed options are
\* there in both cases.
EmptyContexts == { PyNone, PyInt(0), PyList(<<>>), PyDict(<<>>, <<>>) }

C5_NonEmptyContextForwarded ==
  ChatSent =>
    /\ (ContextArg \in EmptyContexts) => ~HasKey(ChatBody, "context")
    /\ (ContextArg \notin EmptyContexts) =>
         (HasKey(ChatBody, "context") /\ Lookup(ChatBody, "context") = ContextArg)
    /\ FixedChatFields

\* A chat request that carries the context [1, 2].
C5_Witness ==
  /\ ChatSent
  /\ Arg(argv, 4) = "[1, 2]"
  /\ HasKey(ChatBody, "context")
  /\ Lookup(ChatBody, "context") = PyList(<<PyInt(1), PyInt(2)>>)

OneJsonLine ==
  /\ exitCode = 0
  /\ result # Unset
  /\ stdout = <<json_dumps(result)>>

\* C6, as stated: for every command token given as first argument, with
\* arguments that parse, the invocation ends having printed exactly one JSON
\* line, the operation's return value.
C6_EveryTokenPrints ==
  (Done /\ Len(argv) >= 2 /\ ArgsParse) => OneJsonLine

\* C6, amended: for each of the command tokens query, chat and models, with
\* arguments that parse, the invocation ends having printed exactly one JSON
\* line, the operation's return value; any other token prints nothing.
C6_RecognisedTokenPrints ==
  /\ (Done /\ Recognised /\ ArgsParse) => OneJsonLine
  /\ (Done /\ Len(argv) >= 2 /\ ~Recognised) => (stdout = <<>> /\ exitCode = 0)

\* The models command printing the names of two models.
C6_Witness ==
  /\ Done
  /\ argv = <<Script, "models", BaseUrl>>
  /\ stdout = <<"{\"models\": [\"llama3\", \"mistral\"], \"count\": 2}">>
  /\ exitCode = 0

\* An operation-level failure: the operation answered with an error payload
\* (for chat, which passes the server's JSON through, one of its own).
OperationFailed ==
  /\ result # Unset
  /\ result.t = "dict"
  /\ HasKey(result, "error")
  /\ (Command = "chat") => ~http_json(reply).ok

\* The server's reply to the embedding request carries an embedding field.
EmbeddingFieldServed ==
  /\ reply # Unset
  /\ reply.status = 200
  /\ reply.body.t = "dict"
  /\ HasKey(reply.body, "embedding")

\* C7, as stated: every operation-level failure of the models, query and chat
\* commands writes a diagnostic line to the error stream, is printed on
\* stdout as an {error: string} payload, and the process exits 0.
C7_EveryFailureLogged ==
  (Done /\ Recognised /\ ArgsParse /\ OperationFailed) =>
    /\ IsErrorResult(result)
    /\ stdout = <<json_dumps(result)>>
    /\ exitCode = 0
    /\ Len(stderr) >= 1

\* C7, amended: every operation-level failure of the models, query and chat
\* commands is caught, printed on stdout as an {error: string} payload, and
\* the process exits 0; a diagnostic line is written to the error stream
\* exactly when the failure is detected in the model lister or in the
\* embedder (a models failure, or a query whose embedding request fails or
\* comes back without an embedding field), and in no other case.
C7_FailureReported ==
  (Done /\ Recognised /\ ArgsParse) =>
    /\ exitCode = 0
    /\ result # Unset
    /\ OperationFailed =>
         /\ IsErrorResult(result)
         /\ stdout = <<json_dumps(result)>>
         /\ (Len(stderr) >= 1)
              <=> \/ Command = "models"
                  \/ Command = "query" /\ ~EmbeddingFieldServed

\* A query whose embedding request was refused: one diagnostic line, one
\* error payload, exit 0.
C7_Witness ==
  /\ Done
  /\ Command = "query"
  /\ reply # Unset
  /\ reply.status = 0
  /\ stderr = <<"Error getting embedding: Connection refused">>
  /\ stdout = <<"{\"error\": \"Failed to get embedding for query\"}">>
  /\ exitCode = 0

\* A valid model list: a dict whose models entry is a list of records that
\* each have a name.
ValidModelList ==
  /\ reply # Unset
  /\ reply.status = 200
  /\ reply.body.t = "dict"
  /\ HasKey(reply.body, "models")
  /\ Lookup(reply.body, "models").t = "list"
  /\ \A i \in 1..Len(Lookup(reply.body, "models").v) :
       /\ Lookup(reply.body, "models").v[i].t = "dict"
       /\ HasKey(Lookup(reply.body, "models").v[i], "name")

DetailsFlag == Len(argv) >= 4 /\ Arg(argv, 3) \in {"true", "True", "TRUE"}

\* C8: for a valid model list, without include_details the result's models
\* is the list of the records' names, in order, and count its length; with
\* include_details models is the record list as served and count its length.
C8_ModelNamesInOrder ==
  (Done /\ Command = "models" /\ ModelsArgsParse /\ ValidModelList) =>
    LET recs == Lookup(reply.body, "models").v IN
    IF DetailsFlag
      THEN result = PyDict(<<"models", "count">>, <<PyList(recs), PyInt(Len(recs))>>)
      ELSE result = PyDict(<<"models", "count">>,
                           << PyList([i \in 1..Len(recs) |-> Lookup(recs[i], "name")]),
                              PyInt(Len(recs)) >>)

\* Three records, one name twice: the names come back in order, duplicates
\* kept.
C8_Witness ==
  /\ Done
  /\ argv = <<Script, "models", BaseUrl, "false">>
  /\ ValidModelList
  /\ result = PyDict(<<"models", "count">>,
                     << PyList(<<PyStr("mistral"), PyStr("llama3"), PyStr("llama3")>>),
                        PyInt(3) >>)

\* C9: query_chroma never lets an exception out: whatever step fails, it
\* returns, and what it returns is either a success result {results, count}
\* or an error result {error: string}, never both.
C9_QueryNeverRaises ==
  (Done /\ Command = "query" /\ QueryArgsParse) =>
    /\ exitCode = 0
    /\ result # Unset
    /\ result.t = "dict"
    /\ IsErrorResult(result) \/ IsQuerySuccess(result)
    /\ ~(HasKey(result, "error") /\ HasKey(result, "results"))

\* A failure after the embedding was obtained, returned as an error result.
C9_Witness ==
  /\ Done
  /\ Command = "query"
  /\ EmbeddingObtained
  /\ IsErrorResult(result)
  /\ exitCode = 0
  /\ stdout = <<json_dumps(result)>>

\* C10: get_embedding_from_ollama never raises; it returns None for every
\* transport or HTTP error and for every response without an embedding
\* field; what it returns otherwise is the response's embedding field; it
\* never returns an error result.
C10_EmbedderReturnsNone ==
  (Done /\ Command = "query" /\ embedding # Unset) =>
    /\ embedding.ok
    /\ ~EmbeddingFieldServed => embedding.val = PyNone
    /\ (embedding.val # PyNone) =>
         (EmbeddingFieldServed /\ embedding.val = Lookup(reply.body, "embedding"))
    /\ ~(embedding.val.t = "dict" /\ HasKey(embedding.val, "error"))

\* A response without an embedding field: None, and a diagnostic line.
C10_Witness ==
  /\ Done
  /\ Command = "query"
  /\ reply = HttpReply(200, PyDict(<<"error">>, <<PyStr("model not found")>>))
  /\ embedding = Ok(PyNone)
  /\ Len(stderr) = 1

====
